---- MODULE Spec2Model ----
(***************************************************************************)
(* Model of src/main.py: a read-only query service over the in-memory      *)
(* list trades_db, with the three handlers get_trades, get_trade_by_id     *)
(* and search_trades.                                                      *)
(*                                                                         *)
(* Encodings.  A Python str that is searched or lower-cased is a sequence  *)
(* of one-character strings; None is <<>> and a supplied optional value v  *)
(* is <<v>>; a datetime is a record [tzaware, month, day] (the year 2022   *)
(* and the time 14:30 are the same in every value used); a Python list is  *)
(* an object [ref, items], ref telling whether the object is the global    *)
(* list trades_db or a list created by the request.                        *)
(***************************************************************************)
EXTENDS Integers, Sequences, FiniteSets, TLC

\* trades_db:  the module-level list of Trade records
\* startup_db: the value generate_db returned at import (never written again)
\* request:    the request being answered, NoRequest between requests
\* response:   what the handler returned for it
VARIABLES trades_db, startup_db, request, response

vars == <<trades_db, startup_db, request, response>>

----------------------------------------------------------------------------
(* Bounds of the model. *)

\* number of records generate_db produces (range(100) in the source, scaled)
NumTrades == 3
\* largest page number a request carries
MaxPage == 3
\* largest limit a request carries
MaxLimit == 2

----------------------------------------------------------------------------
(* Python values. *)

None == <<>>

Some(v) == <<v>>

\* bool(x) of an Optional[str] parameter: None and "" are falsy
TruthyStr(x) == x # None /\ x[1] # ""

\* bool(x) of an Optional[float] parameter: None and 0.0 are falsy
TruthyFloat(x) == x # None /\ x[1] # 0

\* bool(x) of an Optional[datetime] parameter: only None is falsy
TruthyDatetime(x) == x # None

UpperLetters ==
    <<"A","B","C","D","E","F","G","H","I","J","K","L","M",
      "N","O","P","Q","R","S","T","U","V","W","X","Y","Z">>

LowerLetters ==
    <<"a","b","c","d","e","f","g","h","i","j","k","l","m",
      "n","o","p","q","r","s","t","u","v","w","x","y","z">>

LowerChar(c) ==
    IF \E i \in 1..26 : UpperLetters[i] = c
    THEN LowerLetters[CHOOSE i \in 1..26 : UpperLetters[i] = c]
    ELSE c

\* str.lower()
Lower(s) == [i \in 1..Len(s) |-> LowerChar(s[i])]

\* needle in hay, for two str
Contains(needle, hay) ==
    \E i \in 0..(Len(hay) - Len(needle)) :
        SubSeq(hay, i + 1, i + Len(needle)) = needle

Digits == <<"0","1","2","3","4","5","6","7","8","9">>

RECURSIVE Str(_)
\* str(i) of a non-negative int
Str(n) ==
    IF n < 10 THEN <<Digits[n + 1]>>
    ELSE Str(n \div 10) \o <<Digits[(n % 10) + 1]>>

\* datetime(2022, month, day, 14, 30): a naive datetime
datetime(month, day) == [tzaware |-> FALSE, month |-> month, day |-> day]

\* a datetime query parameter that carries a UTC offset
AwareDatetime(month, day) == [tzaware |-> TRUE, month |-> month, day |-> day]

\* a <= b of two datetimes raises TypeError when exactly one is tz-aware
CompareRaises(a, b) == a.tzaware # b.tzaware

DatetimeLE(a, b) ==
    \/ a.month < b.month
    \/ a.month = b.month /\ a.day <= b.day

\* an index of a slice, brought into 0..len as slicing does
ClampIndex(i, n) ==
    IF i < 0 THEN (IF i + n < 0 THEN 0 ELSE i + n)
    ELSE IF i > n THEN n ELSE i

\* PySlice with a start past the end answered by the last end-start elements
PySliceLastPage(items, start, end) ==
    IF start >= Len(items) /\ Len(items) > 0 /\ end > start
    THEN SubSeq(items,
                (IF Len(items) - (end - start) < 0 THEN 0 ELSE Len(items) - (end - start)) + 1,
                Len(items))
    ELSE SubSeq(items, ClampIndex(start, Len(items)) + 1, ClampIndex(end, Len(items)))

\* items[start:end] of a Python list, as a new sequence
PySlice(items, start, end) ==
    SubSeq(items, ClampIndex(start, Len(items)) + 1, ClampIndex(end, Len(items)))

\* the order list.sort(key=..., reverse=...) leaves two keys in
KeyInOrder(a, b, reverse) == IF reverse THEN DatetimeLE(b, a) ELSE DatetimeLE(a, b)

\* insert x behind every element that may stay in front of it (stable)
InsertByDate(sorted, x, reverse) ==
    LET keep == {i \in 1..Len(sorted) :
                    KeyInOrder(sorted[i].trade_date_time, x.trade_date_time, reverse)}
        pos  == IF keep = {} THEN 0 ELSE CHOOSE i \in keep : \A j \in keep : j <= i
    IN  SubSeq(sorted, 1, pos) \o <<x>> \o SubSeq(sorted, pos + 1, Len(sorted))

RECURSIVE SortByDate(_, _)
\* items after items.sort(key=lambda trade: trade.trade_date_time, reverse=reverse)
SortByDate(items, reverse) ==
    IF items = <<>> THEN <<>>
    ELSE InsertByDate(SortByDate(SubSeq(items, 1, Len(items) - 1), reverse),
                      items[Len(items)], reverse)

----------------------------------------------------------------------------
(* generate_db. *)

assetClasses == <<"Equity", "Bond", "FX">>

counterParties ==
    << <<"A","B","C"," ","B","a","n","k">>,
       <<"X","Y","Z"," ","I","n","v","e","s","t","m","e","n","t">>,
       <<"D","E","F"," ","F","o","r","e","x">>,
       <<"X","Y","Z"," ","B","a","n","k">>,
       <<"P","Q","R"," ","I","n","v","e","s","t","m","e","n","t">> >>

instrumentIds ==
    << <<"T","S","L","A">>, <<"A","A","P","L">>, <<"E","U","R","U","S","D">>, <<"A","M","Z","N">>, <<"G","O","O","G">> >>

instrumentNames ==
    << <<"T","e","s","l","a">>, <<"A","p","p","l","e">>, <<"E","u","r","o","/","U","S","D">>,
       <<"A","m","a","z","o","n">>, <<"G","o","o","g","l","e">> >>

buySellIndicators == <<"BUY", "SELL">>

traders ==
    << <<"J","o","h","n"," ","D","o","e">>,
       <<"J","a","n","e"," ","S","m","i","t","h">>,
       <<"B","o","b"," ","J","o","h","n","s","o","n">>,
       <<"A","l","i","c","e"," ","W","i","l","l","i","a","m","s">>,
       <<"R","o","b","e","r","t"," ","J","o","h","n","s","o","n">> >>

\* TradeDetails(buySellIndicator=..., price=..., quantity=...)
TradeDetails(buySellIndicator, price, quantity) ==
    [buySellIndicator |-> buySellIndicator, price |-> price, quantity |-> quantity]

\* Trade(assetClass=..., ..., trader=...)
Trade(assetClass, counterparty, instrumentId, instrumentName, tradeDateTime, tradeDetails, tradeId, trader) ==
    [asset_class |-> assetClass, counterparty |-> counterparty,
     instrument_id |-> instrumentId, instrument_name |-> instrumentName,
     trade_date_time |-> tradeDateTime, trade_details |-> tradeDetails,
     trade_id |-> tradeId, trader |-> trader]

\* One outcome of the random.randint calls of a loop iteration:
\* <<asset class, counterparty, instrument id, instrument name, month, day,
\*   buy/sell, price, quantity>>, the first four and the seventh list indices.
RandomDraws ==
    { <<0, 0, 0, 0, 3, 10, 0, 5, 10>>,
      <<1, 1, 1, 3, 1, 20, 1, 1000, 50>>,
      <<0, 3, 0, 1, 7, 1, 1, 1, 1>> }

\* the Trade built by iteration i of the loop from the draws r
GeneratedTrade(i, r) ==
    Trade(Some(assetClasses[r[1] + 1]),
          Some(counterParties[r[2] + 1]),
          instrumentIds[r[3] + 1],
          instrumentNames[r[4] + 1],
          datetime(r[5], r[6]),
          TradeDetails(buySellIndicators[r[7] + 1], r[8], r[9]),
          Str(i),
          traders[(i % Len(traders)) + 1])

\* the list generate_db returns when iteration i draws draws[i + 1]
generate_db(draws) == [k \in 1..NumTrades |-> GeneratedTrade(k - 1, draws[k])]

----------------------------------------------------------------------------
(* The list objects a request handles. *)

\* the global list trades_db, as filtered_trades = trades_db names it
GlobalList(db) == [ref |-> "trades_db", items |-> db, raised |-> FALSE]

\* a list object built by a comprehension, a slice or an append loop
NewList(items) == [ref |-> "new", items |-> items, raised |-> FALSE]

\* the TypeError of a datetime comparison, as str(e)
CompareError == "can't compare offset-naive and offset-aware datetimes"

\* lst[start:end]: always a new list object
SliceList(lst, start, end) == NewList(PySlice(lst.items, start, end))

\* lst.sort(...): the same object, reordered in place
SortList(lst, reverse) == [lst EXCEPT !.items = SortByDate(lst.items, reverse)]

\* trades_db once the list object lst has been written to
Store(db, lst) == IF lst.ref = "trades_db" THEN lst.items ELSE db

----------------------------------------------------------------------------
(* get_trades: the filters. *)

FilterAssetClass(lst, asset_class) ==
    IF lst.raised \/ ~TruthyStr(asset_class) THEN lst
    ELSE NewList(SelectSeq(lst.items, LAMBDA trade : trade.asset_class = asset_class))

FilterEnd(lst, end) ==
    IF lst.raised \/ ~TruthyDatetime(end) THEN lst
    ELSE IF \E i \in 1..Len(lst.items) : CompareRaises(lst.items[i].trade_date_time, end[1])
    THEN [lst EXCEPT !.raised = TRUE]
    ELSE NewList(SelectSeq(lst.items,
                           LAMBDA trade : DatetimeLE(trade.trade_date_time, end[1])))

FilterMaxPrice(lst, max_price) ==
    IF lst.raised \/ ~TruthyFloat(max_price) THEN lst
    ELSE NewList(SelectSeq(lst.items,
                           LAMBDA trade : trade.trade_details.price <= max_price[1]))

FilterMinPrice(lst, min_price) ==
    IF lst.raised \/ ~TruthyFloat(min_price) THEN lst
    ELSE NewList(SelectSeq(lst.items,
                           LAMBDA trade : trade.trade_details.price >= min_price[1]))

FilterStart(lst, start) ==
    IF lst.raised \/ ~TruthyDatetime(start) THEN lst
    ELSE IF \E i \in 1..Len(lst.items) : CompareRaises(lst.items[i].trade_date_time, start[1])
    THEN [lst EXCEPT !.raised = TRUE]
    ELSE NewList(SelectSeq(lst.items,
                           LAMBDA trade : DatetimeLE(start[1], trade.trade_date_time)))

FilterTradeType(lst, trade_type) ==
    IF lst.raised \/ ~TruthyStr(trade_type) THEN lst
    ELSE NewList(SelectSeq(lst.items,
                           LAMBDA trade : Some(trade.trade_details.buySellIndicator) = trade_type))

\* filtered_trades when line 157 is reached, or the list with raised set
filtered_trades(db, req) ==
    FilterTradeType(
      FilterStart(
        FilterMinPrice(
          FilterMaxPrice(
            FilterEnd(
              FilterAssetClass(GlobalList(db), req.asset_class),
              req.end),
            req.max_price),
          req.min_price),
        req.start),
      req.trade_type)

----------------------------------------------------------------------------
(* Pagination and sort, the same code in get_trades and search_trades. *)

StartIndex(page, limit) == (page - 1) * limit

\* EndIndex with the end taken as inclusive
EndIndexInclusive(start_index, limit) == start_index + limit + 1

EndIndex(start_index, limit) == start_index + limit

\* reverse = sort.lower() == "desc"
Reverse(sort) == Lower(sort) = <<"d","e","s","c">>

\* Paginate with filtered_trades.sort(...) run before the slice is taken
PaginateSortInPlace(db, lst, page, limit, sort) ==
    LET sorted_trades == SortList(lst, Reverse(sort))
        start_index   == StartIndex(page, limit)
    IN  [response  |-> [kind |-> "ok", total_count |-> Len(lst.items), page |-> page,
                        trades |-> SliceList(sorted_trades, start_index,
                                             EndIndex(start_index, limit)).items],
         trades_db |-> Store(db, sorted_trades)]

\* Paginate with the slice taken from sorted(filtered_trades, ...)
PaginateSortedCopy(db, lst, page, limit, sort) ==
    LET sorted_trades == NewList(SortByDate(lst.items, Reverse(sort)))
        start_index   == StartIndex(page, limit)
    IN  [response  |-> [kind |-> "ok", total_count |-> Len(lst.items), page |-> page,
                        trades |-> SliceList(sorted_trades, start_index,
                                             EndIndex(start_index, limit)).items],
         trades_db |-> db]

\* from total_trades = len(...) to the return: the response and trades_db after it
Paginate(db, lst, page, limit, sort) ==
    LET total_trades     == Len(lst.items)
        start_index      == StartIndex(page, limit)
        end_index        == EndIndex(start_index, limit)
        paginated_trades == SortList(SliceList(lst, start_index, end_index), Reverse(sort))
    IN  [response  |-> [kind |-> "ok", total_count |-> total_trades, page |-> page,
                        trades |-> paginated_trades.items],
         trades_db |-> Store(db, paginated_trades)]

\* except Exception as e: return {"error": str(e)}
ErrorResponse(db, message) ==
    [response |-> [kind |-> "error", error |-> message], trades_db |-> db]

get_trades(db, req) ==
    LET lst == filtered_trades(db, req)
    IN  IF lst.raised THEN ErrorResponse(db, CompareError)
        ELSE Paginate(db, lst, req.page, req.limit, req.sort)

----------------------------------------------------------------------------
(* get_trade_by_id. *)

\* get_trade_by_id with the loop running to its end and keeping the last match
get_trade_by_id_last(db, trade_id) ==
    LET hits == {i \in 1..Len(db) : db[i].trade_id = trade_id}
    IN  IF hits = {}
        THEN [response |-> [kind |-> "error", error |-> "Trade not found"], trades_db |-> db]
        ELSE [response |-> [kind |-> "trade",
                            trade |-> db[CHOOSE i \in hits : \A j \in hits : j <= i]],
              trades_db |-> db]

get_trade_by_id(db, trade_id) ==
    LET hits == {i \in 1..Len(db) : db[i].trade_id = trade_id}
    IN  IF hits = {}
        THEN [response |-> [kind |-> "error", error |-> "Trade not found"], trades_db |-> db]
        ELSE [response |-> [kind |-> "trade",
                            trade |-> db[CHOOSE i \in hits : \A j \in hits : i <= j]],
              trades_db |-> db]

----------------------------------------------------------------------------
(* search_trades. *)

\* SearchMatches with the counterparty test guarding all four comparisons
SearchMatchesNeedsCounterparty(q, trade) ==
    /\ trade.counterparty # None
    /\ \/ Contains(Lower(q), Lower(trade.counterparty[1]))
       \/ Contains(Lower(q), Lower(trade.instrument_id))
       \/ Contains(Lower(q), Lower(trade.instrument_name))
       \/ Contains(Lower(q), Lower(trade.trader))

\* SearchMatches with q compared as typed
SearchMatchesRawQuery(q, trade) ==
    \/ /\ trade.counterparty # None
       /\ Contains(q, Lower(trade.counterparty[1]))
    \/ Contains(q, Lower(trade.instrument_id))
    \/ Contains(q, Lower(trade.instrument_name))
    \/ Contains(q, Lower(trade.trader))

\* the condition of the if at lines 193-201
SearchMatches(q, trade) ==
    \/ /\ trade.counterparty # None
       /\ Contains(Lower(q), Lower(trade.counterparty[1]))
    \/ Contains(Lower(q), Lower(trade.instrument_id))
    \/ Contains(Lower(q), Lower(trade.instrument_name))
    \/ Contains(Lower(q), Lower(trade.trader))

\* searched_trades when line 204 is reached
searched_trades(db, q) == NewList(SelectSeq(db, LAMBDA trade : SearchMatches(q, trade)))

search_trades(db, req) ==
    Paginate(db, searched_trades(db, req.q), req.page, req.limit, req.sort)

----------------------------------------------------------------------------
(* The values the query parameters are drawn from. *)

AssetClassArgs == {None, Some(""), Some("Equity")}

DateArgs == {None, Some(datetime(3, 10)), Some(AwareDatetime(3, 10))}

PriceArgs == {None, Some(0), Some(5), Some(1000)}

TradeTypeArgs == {None, Some(""), Some("BUY")}

PageArgs == 0..MaxPage

LimitArgs == (-1)..MaxLimit

SortArgs == {<<"a","s","c">>, <<"A","S","C">>, <<"d","e","s","c">>, <<"d","a","t","e">>}

QueryArgs == {<<>>, <<"t","s","l","a">>, <<"T","S","L","A">>, <<"b","a","n","k">>, <<"J","O">>, <<"z","z","z">>}

TradeIdArgs == {Str(i) : i \in 0..NumTrades} \cup {<<"0","0">>, <<"9","9","9","9">>}

\* the filters that are supplied together in one request
FilterPairs ==
    {{"max_price", "min_price"}, {"asset_class", "end"}, {"start", "end"}}

\* the filter parameters of a request: at most one supplied, or one of FilterPairs
FilterArgs ==
    {f \in [asset_class : AssetClassArgs, end : DateArgs, max_price : PriceArgs,
            min_price : PriceArgs, start : DateArgs, trade_type : TradeTypeArgs] :
        LET supplied == {k \in {"asset_class", "end", "max_price", "min_price",
                                "start", "trade_type"} : f[k] # None}
        IN  Cardinality(supplied) <= 1 \/ supplied \in FilterPairs}

NoRequest == [endpoint |-> "none"]

NoResponse == [kind |-> "none"]

----------------------------------------------------------------------------
(* The service. *)

\* trades_db: List[Trade] = generate_db()
Init ==
    /\ trades_db \in {generate_db(draws) : draws \in [1..NumTrades -> RandomDraws]}
    /\ startup_db = trades_db
    /\ request = NoRequest
    /\ response = NoResponse

\* GET /trades
GetTrades ==
    /\ request = NoRequest
    /\ \E f \in FilterArgs, page \in PageArgs, limit \in LimitArgs, sort \in SortArgs :
          LET req == [endpoint |-> "/trades", asset_class |-> f.asset_class,
                      end |-> f.end, max_price |-> f.max_price,
                      min_price |-> f.min_price, start |-> f.start,
                      trade_type |-> f.trade_type, page |-> page, limit |-> limit,
                      sort |-> sort]
              out == get_trades(trades_db, req)
          IN  /\ request' = req
              /\ response' = out.response
              /\ trades_db' = out.trades_db
    /\ UNCHANGED startup_db

\* GET /trades/id/{trade_id}
GetTradeById ==
    /\ request = NoRequest
    /\ \E trade_id \in TradeIdArgs :
          LET out == get_trade_by_id(trades_db, trade_id)
          IN  /\ request' = [endpoint |-> "/trades/id", trade_id |-> trade_id]
              /\ response' = out.response
              /\ trades_db' = out.trades_db
    /\ UNCHANGED startup_db

\* GET /trades/search
SearchTrades ==
    /\ request = NoRequest
    /\ \E q \in QueryArgs, page \in PageArgs, limit \in LimitArgs, sort \in SortArgs :
          LET req == [endpoint |-> "/trades/search", q |-> q, page |-> page,
                      limit |-> limit, sort |-> sort]
              out == search_trades(trades_db, req)
          IN  /\ request' = req
              /\ response' = out.response
              /\ trades_db' = out.trades_db
    /\ UNCHANGED startup_db

\* the response leaves the service and the next request may come
SendResponse ==
    /\ request # NoRequest
    /\ request' = NoRequest
    /\ response' = NoResponse
    /\ UNCHANGED <<trades_db, startup_db>>

Next == GetTrades \/ GetTradeById \/ SearchTrades \/ SendResponse

Spec == Init /\ [][Next]_vars

----------------------------------------------------------------------------
(* A collection as the Trade model allows it: counterparty and assetClass  *)
(* are optional and tradeId is not checked for uniqueness.                 *)

AnyTrades ==
    { GeneratedTrade(0, <<0, 0, 0, 0, 3, 10, 0, 5, 10>>),
      [GeneratedTrade(1, <<1, 1, 1, 3, 1, 20, 1, 1000, 50>>)
          EXCEPT !.counterparty = None, !.asset_class = None, !.trade_id = Str(0)],
      [GeneratedTrade(2, <<0, 3, 0, 1, 7, 1, 1, 1, 1>>)
          EXCEPT !.counterparty = None, !.trade_id = Str(1)] }

GeneratedDbs == {generate_db(draws) : draws \in [1..NumTrades -> RandomDraws]}

InitAny ==
    /\ trades_db \in GeneratedDbs \cup [1..NumTrades -> AnyTrades]
    /\ startup_db = trades_db
    /\ request = NoRequest
    /\ response = NoResponse

SpecAny == InitAny /\ [][Next]_vars

----------------------------------------------------------------------------
(* Vocabulary of the properties. *)

\* a GET /trades or GET /trades/search request was answered with a page
Paged == request.endpoint \in {"/trades", "/trades/search"} /\ response.kind = "ok"

BagOf(s) ==
    [x \in {s[i] : i \in 1..Len(s)} |-> Cardinality({i \in 1..Len(s) : s[i] = x})]

\* trade satisfies every predicate the request supplies
SatisfiesSupplied(trade, req) ==
    /\ req.asset_class # None => trade.asset_class = req.asset_class
    /\ req.end # None => DatetimeLE(trade.trade_date_time, req.end[1])
    /\ req.max_price # None => trade.trade_details.price <= req.max_price[1]
    /\ req.min_price # None => trade.trade_details.price >= req.min_price[1]
    /\ req.start # None => DatetimeLE(req.start[1], trade.trade_date_time)
    /\ req.trade_type # None => Some(trade.trade_details.buySellIndicator) = req.trade_type

\* q occurs in text when letter case is ignored
OccursIgnoringCase(q, text) ==
    \E off \in 0..(Len(text) - Len(q)) :
        \A k \in 1..Len(q) : LowerChar(q[k]) = LowerChar(text[off + k])

MatchesIgnoringCase(q, trade) ==
    \/ trade.counterparty # None /\ OccursIgnoringCase(q, trade.counterparty[1])
    \/ OccursIgnoringCase(q, trade.instrument_id)
    \/ OccursIgnoringCase(q, trade.instrument_name)
    \/ OccursIgnoringCase(q, trade.trader)

\* the matching list of an answered page request, in insertion order: the records
\* total_count counts
Matching ==
    IF request.endpoint = "/trades"
    THEN filtered_trades(startup_db, request).items
    ELSE SelectSeq(startup_db, LAMBDA trade : MatchesIgnoringCase(request.q, trade))

Ascending(trades) ==
    \A i \in 1..(Len(trades) - 1) :
        DatetimeLE(trades[i].trade_date_time, trades[i + 1].trade_date_time)

Descending(trades) ==
    \A i \in 1..(Len(trades) - 1) :
        DatetimeLE(trades[i + 1].trade_date_time, trades[i].trade_date_time)

----------------------------------------------------------------------------
(* C1: the total_count of every GET /trades response is the number of     *)
(* records of the collection that satisfy all the supplied predicates,    *)
(* a bound of 0 and an empty-string equality filter included.             *)
C1_TotalCountCountsSupplied ==
    (request.endpoint = "/trades" /\ response.kind = "ok") =>
        response.total_count =
            Cardinality({i \in 1..Len(startup_db) :
                            SatisfiesSupplied(startup_db[i], request)})

(* C2: the returned page is ascending by tradeDateTime when sort is "asc"  *)
(* in any letter case, and descending for "desc" in any letter case and    *)
(* for every other sort value.                                             *)
C2_SortDirection ==
    Paged =>
        IF Lower(request.sort) = <<"a","s","c">>
        THEN Ascending(response.trades)
        ELSE Descending(response.trades)

(* C3: after any sequence of requests trades_db holds the records of       *)
(* startup in the same order, and the answered request, repeated, gets the *)
(* same response.                                                          *)
C3_CollectionUnchanged ==
    /\ trades_db = startup_db
    /\ request.endpoint = "/trades" =>
          get_trades(trades_db, request).response = response
    /\ request.endpoint = "/trades/search" =>
          search_trades(trades_db, request).response = response
    /\ request.endpoint = "/trades/id" =>
          get_trade_by_id(trades_db, request.trade_id).response = response

\* an unfiltered GET /trades whose page the sort reordered, the collection in
\* its order of startup
C3_Witness ==
    /\ request.endpoint = "/trades" /\ response.kind = "ok"
    /\ \A k \in {"asset_class", "end", "max_price", "min_price", "start", "trade_type"} :
          request[k] = None
    /\ request.page = 1
    /\ Len(response.trades) >= 2
    /\ response.trades # SubSeq(startup_db, 1, Len(response.trades))
    /\ trades_db = startup_db

(* C4: with page >= 1 and limit >= 1 a page holds at most limit trades.    *)
C4_PageAtMostLimit ==
    (Paged /\ request.page >= 1 /\ request.limit >= 1) =>
        Len(response.trades) <= request.limit

\* a full page with more matching records behind it
C4_Witness ==
    /\ Paged /\ request.page >= 1 /\ request.limit >= 1
    /\ Len(response.trades) = request.limit
    /\ response.total_count > request.page * request.limit

(* C5: when min_price and max_price are both supplied (and nothing else),  *)
(* the matching set is exactly the records with                            *)
(* min_price <= price <= max_price, in whatever order the bounds come.     *)
C5_PriceBoundsInclusive ==
    (/\ request.endpoint = "/trades" /\ response.kind = "ok"
     /\ request.min_price # None /\ request.max_price # None
     /\ \A k \in {"asset_class", "end", "start", "trade_type"} : request[k] = None)
    =>
        /\ response.total_count =
              Cardinality({i \in 1..Len(startup_db) :
                  /\ request.min_price[1] <= startup_db[i].trade_details.price
                  /\ startup_db[i].trade_details.price <= request.max_price[1]})
        /\ \A i \in 1..Len(response.trades) :
              /\ request.min_price[1] <= response.trades[i].trade_details.price
              /\ response.trades[i].trade_details.price <= request.max_price[1]

(* C6: a page whose offset (page-1)*limit is at or beyond the number of    *)
(* matching records is answered with no trades, no error, and the full     *)
(* number of matching records as total_count.                              *)
C6_PageBeyondIsEmpty ==
    (/\ request.endpoint \in {"/trades", "/trades/search"}
     /\ request.endpoint = "/trades" => ~filtered_trades(startup_db, request).raised
     /\ (request.page - 1) * request.limit >= Len(Matching))
    =>
        /\ response.kind = "ok"
        /\ response.trades = <<>>
        /\ response.total_count = Len(Matching)

\* the offset is exactly the number of matching records, and there are some
C6_Witness ==
    /\ Paged
    /\ Len(Matching) > 0
    /\ (request.page - 1) * request.limit = Len(Matching)
    /\ response.trades = <<>>
    /\ response.total_count = Len(Matching)

(* C7: GET /trades/id/{trade_id} returns the first record, in insertion    *)
(* order, whose tradeId is trade_id, and "Trade not found" exactly when    *)
(* there is none; in a generated collection every id of an iteration       *)
(* returns the one record with that tradeId.                               *)
C7_FirstMatchOrNotFound ==
    request.endpoint = "/trades/id" =>
        LET hits == {i \in 1..Len(trades_db) : trades_db[i].trade_id = request.trade_id}
        IN  /\ hits = {} <=> response = [kind |-> "error", error |-> "Trade not found"]
            /\ hits # {} =>
                  /\ response.kind = "trade"
                  /\ \E i \in hits : /\ \A j \in hits : i <= j
                                     /\ response.trade = trades_db[i]
            /\ (/\ trades_db \in GeneratedDbs
                /\ \E i \in 0..(Len(trades_db) - 1) : request.trade_id = Str(i))
               => /\ Cardinality(hits) = 1
                  /\ response.kind = "trade"
                  /\ response.trade.trade_id = request.trade_id

\* two different records carry the tradeId asked for, and the first is returned
C7_Witness ==
    /\ request.endpoint = "/trades/id" /\ response.kind = "trade"
    /\ \E i, j \in 1..Len(trades_db) :
          /\ i < j
          /\ trades_db[i].trade_id = request.trade_id
          /\ trades_db[j].trade_id = request.trade_id
          /\ trades_db[i] # trades_db[j]
          /\ \A k \in 1..(i - 1) : trades_db[k].trade_id # request.trade_id
          /\ response.trade = trades_db[i]

RECURSIVE PagesFrom(_, _)
\* the trades of pages p, p+1, ... up to the last page, for the answered search
PagesFrom(p, last) ==
    IF p > last THEN <<>>
    ELSE search_trades(trades_db, [request EXCEPT !.page = p]).response.trades
           \o PagesFrom(p + 1, last)

(* C8: a search with q = "" matches every record, records without a       *)
(* counterparty included: total_count is the size of the collection and    *)
(* pages 1..ceil(size/limit) together hold every record exactly once.      *)
C8_EmptyQueryMatchesAll ==
    (request.endpoint = "/trades/search" /\ request.q = <<>>) =>
        /\ response.kind = "ok"
        /\ response.total_count = Len(trades_db)
        /\ request.limit >= 1 =>
              BagOf(PagesFrom(1, (Len(trades_db) + request.limit - 1) \div request.limit))
                 = BagOf(trades_db)

\* an empty query over a collection with a record that has no counterparty,
\* answered with a page that holds such a record
C8_Witness ==
    /\ request.endpoint = "/trades/search" /\ request.q = <<>>
    /\ response.kind = "ok"
    /\ request.page >= 2 /\ request.limit >= 1
    /\ \E i \in 1..Len(response.trades) : response.trades[i].counterparty = None
    /\ response.total_count = Len(trades_db)

(* C9: two searches that differ only in the letter case of q get the same  *)
(* response, and a record matches when q occurs, letter case ignored, in   *)
(* counterparty (when there is one), instrumentId, instrumentName or       *)
(* trader.                                                                 *)
C9_SearchIgnoresCase ==
    request.endpoint = "/trades/search" =>
        /\ \A q2 \in QueryArgs :
              Lower(q2) = Lower(request.q) =>
                  search_trades(trades_db, [request EXCEPT !.q = q2]).response = response
        /\ response.kind = "ok"
        /\ response.total_count =
              Cardinality({i \in 1..Len(trades_db) :
                              MatchesIgnoringCase(request.q, trades_db[i])})
        /\ \A i \in 1..Len(response.trades) :
              MatchesIgnoringCase(request.q, response.trades[i])

\* an upper-case query that matches some record only when case is ignored
C9_Witness ==
    /\ request.endpoint = "/trades/search" /\ response.kind = "ok"
    /\ request.q # Lower(request.q)
    /\ response.total_count > 0
    /\ Len(response.trades) > 0
    /\ \A i \in 1..Len(trades_db) :
          /\ trades_db[i].counterparty # None => ~Contains(request.q, trades_db[i].counterparty[1])
          /\ ~Contains(request.q, trades_db[i].instrument_id)
          /\ ~Contains(request.q, trades_db[i].instrument_name)
          /\ ~Contains(request.q, trades_db[i].trader)

(* C10: with page >= 1 and limit >= 1 the trades of page p are, as a       *)
(* multiset, the matching records at positions (p-1)*limit ..              *)
(* (p-1)*limit+limit-1 of the matching list in insertion order: the sort   *)
(* reorders inside the page only.                                          *)
C10_PageIsInsertionOrderSlice ==
    (Paged /\ request.page >= 1 /\ request.limit >= 1) =>
        LET first == (request.page - 1) * request.limit + 1
            last  == IF first + request.limit - 1 <= Len(Matching)
                     THEN first + request.limit - 1 ELSE Len(Matching)
        IN  BagOf(response.trades) = BagOf([k \in 1..(IF last >= first THEN last - first + 1 ELSE 0)
                                               |-> Matching[first + k - 1]])

\* a page the sort reordered, while a record of a later page would come
\* first in the sort order
C10_Witness ==
    /\ Paged /\ request.page = 1 /\ request.limit >= 1
    /\ Len(response.trades) = request.limit
    /\ response.trades # SubSeq(Matching, 1, request.limit)
    /\ \E i \in (request.limit + 1)..Len(Matching) :
          LET a == Matching[i].trade_date_time
              b == response.trades[1].trade_date_time
          IN  a # b /\ (IF Reverse(request.sort) THEN DatetimeLE(b, a) ELSE DatetimeLE(a, b))

====
